---- MODULE Spec2Model ----
(***************************************************************************)
(* Model of main/wifi_setup.c: the provisioning lifecycle of setup_wifi,   *)
(* the provisioning event handler and the provisioning timeout timer.      *)
(*                                                                         *)
(* Three contexts interleave: the caller of setup_wifi (one step per       *)
(* collaborator call from line 106 on), the event loop running             *)
(* wifi_prov_event_handler (one action per event, run to completion) and   *)
(* the timer service running provisioning_timer_handler.                   *)
(***************************************************************************)
EXTENDS Integers, Sequences, FiniteSets, TLC

\* ---------------------------------------------------------------- bounds
\* Credential attempts (WIFI_PROV_CRED_RECV events) a peer makes per session.
MaxAttempts == 2

\* Longest project name tried.
MaxNameLen == 27

\* ------------------------------------------------------------- constants
\* provisioning_timer = NULL
NULL == 0

\* wifi_config_t with all fields zero: ssid[0] == '\0'
EmptyCfg == [ssid |-> "", password |-> ""]
NetA == [ssid |-> "home", password |-> "pw-home"]
NetB == [ssid |-> "office", password |-> "pw-office"]

\* Records the flash may hold when setup_wifi is entered.
StoredCfgs == {EmptyCfg, NetA}
\* Records a provisioning peer may send.
CandidateCfgs == {NetA, NetB}

VARIABLES
    pc,                   \* position of setup_wifi
    reconfigure,          \* argument of setup_wifi
    provisioned,          \* local of setup_wifi, line 121
    wifi_config,          \* STA config as esp_wifi_get_config returns it
    startup_wifi_config,  \* static, line 13
    current_cfg,          \* local of the WIFI_PROV_END case, line 61
    provisioning_timer,   \* static handle, line 12
    timers,               \* esp_timer objects: handle -> "created"|"armed"|"deleted"
    cb_pending,           \* handles whose callback was dispatched and has not run yet
    mgr_inited,           \* provisioning manager initialised
    prov,                 \* transport: "off" | "running" | "stopping" | "stopped"
    attempt,              \* credential attempt: "none" | "pending" | "failed" | "accepted"
    nAttempts,            \* credential attempts so far
    events,               \* WIFI_PROV_EVENT queue of the event loop
    log,                  \* collaborator calls and events, in program order
    project_name,         \* app_info.project_name, line 87
    mac,                  \* the 6 bytes esp_efuse_mac_get_default stores, line 91
    device_name,          \* local of setup_wifi, line 93
    service_name          \* local of setup_wifi, line 129

vars == <<pc, reconfigure, provisioned, wifi_config, startup_wifi_config,
          current_cfg, provisioning_timer, timers, cb_pending, mgr_inited,
          prov, attempt, nAttempts, events, log,
          project_name, mac, device_name, service_name>>

nameVars == <<project_name, mac, device_name, service_name>>

\* Everything except pc and log.
progVars == <<reconfigure, provisioned, wifi_config, startup_wifi_config,
              current_cfg, provisioning_timer, timers, cb_pending, mgr_inited,
              prov, attempt, nAttempts, events>>

\* ---------------------------------------------------------------- helpers
Call(by, name) == [by |-> by, call |-> name]

SETUP == "setup_wifi"
HANDLER == "wifi_prov_event_handler"
TIMER == "provisioning_timer_handler"
LOOP == "event_loop"

\* ------------------------------------------------------------------ names
\* Strings are sequences of characters.
Min(a, b) == IF a < b THEN a ELSE b

Letters == <<"a", "b", "c", "d", "e", "f", "g", "h", "i", "j", "k", "l", "m",
             "n", "o", "p", "q", "r", "s", "t", "u", "v", "w", "x", "y", "z">>
HexDigits == <<"0", "1", "2", "3", "4", "5", "6", "7",
               "8", "9", "a", "b", "c", "d", "e", "f">>

\* project names of every length up to MaxNameLen
NameOfLen(n) == [i \in 1..n |-> Letters[((i - 1) % 26) + 1]]
ProjectNames == {NameOfLen(n) : n \in 0..MaxNameLen}
MyApp == <<"M", "y", "A", "p", "p">>

\* hardware identifiers, in the order esp_efuse_mac_get_default stores the bytes
Macs == {<<0, 0, 0, 0, 0, 0>>,
         <<34, 17, 0, 0, 0, 0>>,
         <<36, 10, 196, 0, 17, 2>>,
         <<36, 111, 40, 171, 205, 239>>,
         <<255, 255, 255, 255, 255, 255>>}
DefaultMac == <<36, 111, 40, 171, 205, 239>>

\* line 93: char device_name[33]
DeviceNameSize == 33
\* line 94: "%.25s"
ProductPrecision == 25
\* line 94: "%06llx"
MacWidth == 6
\* line 129: char service_name[sizeof(device_name) + 5]
ServiceNameSize == DeviceNameSize + 5

Nibbles(byte) == <<HexDigits[(byte \div 16) + 1], HexDigits[(byte % 16) + 1]>>

\* lines 90-91: the bytes are stored into a uint64_t that was 0; read as a
\* little-endian integer the last byte is the most significant one. The
\* digits of that integer, most significant first, leading zeros included.
ValueDigits(m) ==
    Nibbles(m[6]) \o Nibbles(m[5]) \o Nibbles(m[4])
        \o Nibbles(m[3]) \o Nibbles(m[2]) \o Nibbles(m[1])

RECURSIVE StripZeros(_)
StripZeros(s) ==
    IF Len(s) <= 1 THEN s
    ELSE IF Head(s) = "0" THEN StripZeros(Tail(s)) ELSE s

RECURSIVE PadZeros(_, _)
PadZeros(s, width) == IF Len(s) >= width THEN s ELSE PadZeros(<<"0">> \o s, width)

\* "%0<width>llx": lowercase hex, at least width digits, zero padded
FormatHex(m, width) == PadZeros(StripZeros(ValueDigits(m)), width)

\* "%.<n>s": at most n characters of s
Precision(s, n) == SubSeq(s, 1, Min(Len(s), n))

\* snprintf(buf, size, ...): at most size - 1 characters are stored
Snprintf(size, s) == SubSeq(s, 1, Min(Len(s), size - 1))

\* line 94: snprintf(device_name, sizeof(device_name), "%.25s-%06llx", ...)
DeviceName(name, m) ==
    Snprintf(DeviceNameSize,
             Precision(name, ProductPrecision) \o <<"-">> \o FormatHex(m, MacWidth))

\* Variant of line 130 that formats into a buffer as small as device_name.
ServiceName_SmallBuffer(dn) ==
    Snprintf(DeviceNameSize, <<"P", "R", "O", "V", "_">> \o dn)

\* line 130: snprintf(service_name, sizeof(service_name), "PROV_%s", device_name)
ServiceName(dn) ==
    Snprintf(ServiceNameSize, <<"P", "R", "O", "V", "_">> \o dn)

\* ESP_ERROR_CHECK failed: abort(), nothing runs any more.
Running == pc # "aborted"

\* setup_wifi is entered with a project name and a hardware identifier.
InitWith(names, macs) ==
    /\ project_name \in names
    /\ mac \in macs
    /\ device_name = <<>>
    /\ service_name = <<>>
    /\ pc = "L94"
    /\ reconfigure \in BOOLEAN
    /\ provisioned = FALSE
    /\ wifi_config \in StoredCfgs
    /\ startup_wifi_config = EmptyCfg
    /\ current_cfg = EmptyCfg
    /\ provisioning_timer = NULL
    /\ timers = <<>>
    /\ cb_pending = {}
    /\ mgr_inited = FALSE
    /\ prov = "off"
    /\ attempt = "none"
    /\ nAttempts = 0
    /\ events = <<>>
    /\ log = <<>>

Init == InitWith({MyApp}, {DefaultMac})

\* lines 86-95
SetupDeviceName ==
    /\ pc = "L94"
    /\ pc' = "L106"
    /\ device_name' = DeviceName(project_name, mac)
    /\ log' = log
    /\ UNCHANGED progVars
    /\ UNCHANGED <<project_name, mac, service_name>>


\* ------------------------------------------------------------ setup_wifi
\* Variant of line 106 in which the reconnect collaborator is never started.
SetupReconnectStart_Skipped ==
    /\ pc = "L106"
    /\ pc' = "L110"
    /\ log' = log
    /\ UNCHANGED progVars
    /\ UNCHANGED nameVars

\* line 106: wifi_reconnect_start()
SetupReconnectStart ==
    /\ pc = "L106"
    /\ pc' = "L110"
    /\ log' = Append(log, Call(SETUP, "wifi_reconnect_start"))
    /\ UNCHANGED progVars
    /\ UNCHANGED nameVars

\* line 110: esp_wifi_get_config(ESP_IF_WIFI_STA, &startup_wifi_config)
SetupSnapshot ==
    /\ pc = "L110"
    /\ pc' = "L118"
    /\ startup_wifi_config' = wifi_config
    /\ log' = Append(log, Call(SETUP, "esp_wifi_get_config"))
    /\ UNCHANGED <<reconfigure, provisioned, wifi_config, current_cfg,
                   provisioning_timer, timers, cb_pending, mgr_inited, prov,
                   attempt, nAttempts, events>>
    /\ UNCHANGED nameVars

\* lines 117-118: esp_event_handler_register, wifi_prov_mgr_init
SetupProvInit ==
    /\ pc = "L118"
    /\ pc' = "L122"
    /\ mgr_inited' = TRUE
    /\ log' = Append(log, Call(SETUP, "wifi_prov_mgr_init"))
    /\ UNCHANGED <<reconfigure, provisioned, wifi_config, startup_wifi_config,
                   current_cfg, provisioning_timer, timers, cb_pending, prov,
                   attempt, nAttempts, events>>
    /\ UNCHANGED nameVars

\* line 122: wifi_prov_mgr_is_provisioned: a record with a network name is stored
SetupIsProvisioned ==
    /\ pc = "L122"
    /\ pc' = "L124"
    /\ provisioned' = (wifi_config.ssid # "")
    /\ log' = log
    /\ UNCHANGED <<reconfigure, wifi_config, startup_wifi_config, current_cfg,
                   provisioning_timer, timers, cb_pending, mgr_inited, prov,
                   attempt, nAttempts, events>>
    /\ UNCHANGED nameVars

\* Variant of the test at line 124 that forgets the reconfigure argument.
NeedsProvisioning_IgnoresReconfigure(isProvisioned, reconf) == ~isProvisioned

\* line 124: if (!provisioned || reconfigure)
NeedsProvisioning(isProvisioned, reconf) == (~isProvisioned) \/ reconf

\* Variant of line 133 that takes the snapshot again once provisioning runs.
SetupStartProvisioning_SnapshotsAgain ==
    /\ pc = "L124"
    /\ NeedsProvisioning(provisioned, reconfigure)
    /\ pc' = "L139"
    /\ prov' = "running"
    /\ events' = Append(events, "WIFI_PROV_START")
    /\ wifi_config' \in {wifi_config, EmptyCfg}
    /\ startup_wifi_config' = wifi_config'
    /\ log' = Append(log, Call(SETUP, "wifi_prov_mgr_start_provisioning"))
    /\ UNCHANGED <<reconfigure, provisioned, current_cfg,
                   provisioning_timer, timers, cb_pending, mgr_inited,
                   attempt, nAttempts>>
    /\ service_name' = ServiceName(device_name)
    /\ UNCHANGED <<project_name, mac, device_name>>

\* line 133: wifi_prov_mgr_start_provisioning: the session runs and posts
\* WIFI_PROV_START. The wifi stack may lose the stored STA config once
\* provisioning starts (comments at 58-59, 108-109).
SetupStartProvisioning ==
    /\ pc = "L124"
    /\ NeedsProvisioning(provisioned, reconfigure)
    /\ pc' = "L139"
    /\ prov' = "running"
    /\ events' = Append(events, "WIFI_PROV_START")
    /\ wifi_config' \in {wifi_config, EmptyCfg}
    /\ log' = Append(log, Call(SETUP, "wifi_prov_mgr_start_provisioning"))
    /\ UNCHANGED <<reconfigure, provisioned, startup_wifi_config, current_cfg,
                   provisioning_timer, timers, cb_pending, mgr_inited,
                   attempt, nAttempts>>
    /\ service_name' = ServiceName(device_name)
    /\ UNCHANGED <<project_name, mac, device_name>>

\* line 139: esp_timer_create(&args, &provisioning_timer)
SetupTimerCreate ==
    /\ pc = "L139"
    /\ pc' = "L140"
    /\ timers' = Append(timers, "created")
    /\ provisioning_timer' = Len(timers) + 1
    /\ log' = Append(log, Call(SETUP, "esp_timer_create"))
    /\ UNCHANGED <<reconfigure, provisioned, wifi_config, startup_wifi_config,
                   current_cfg, cb_pending, mgr_inited, prov, attempt,
                   nAttempts, events>>
    /\ UNCHANGED nameVars

\* Variant of line 140 followed by a resume call placed after the if/else.
SetupTimerStart_AlsoResumes ==
    /\ pc = "L140"
    /\ IF provisioning_timer = NULL
         THEN /\ pc' = "aborted"
              /\ timers' = timers
         ELSE /\ pc' = "done"
              /\ timers' = [timers EXCEPT ![provisioning_timer] = "armed"]
    /\ log' = log \o <<Call(SETUP, "esp_timer_start_once"),
                        Call(SETUP, "wifi_reconnect_resume")>>
    /\ UNCHANGED <<reconfigure, provisioned, wifi_config, startup_wifi_config,
                   current_cfg, provisioning_timer, cb_pending, mgr_inited,
                   prov, attempt, nAttempts, events>>
    /\ UNCHANGED nameVars

\* line 140: ESP_ERROR_CHECK(esp_timer_start_once(provisioning_timer, ...)).
\* The handle is read from the static: when the WIFI_PROV_END case has reset
\* it to NULL in between, the call fails and ESP_ERROR_CHECK aborts.
SetupTimerStart ==
    /\ pc = "L140"
    /\ IF provisioning_timer = NULL
         THEN /\ pc' = "aborted"
              /\ timers' = timers
         ELSE /\ pc' = "done"
              /\ timers' = [timers EXCEPT ![provisioning_timer] = "armed"]
    /\ log' = Append(log, Call(SETUP, "esp_timer_start_once"))
    /\ UNCHANGED <<reconfigure, provisioned, wifi_config, startup_wifi_config,
                   current_cfg, provisioning_timer, cb_pending, mgr_inited,
                   prov, attempt, nAttempts, events>>
    /\ UNCHANGED nameVars

\* Variant of the else branch that forgets line 145.
SetupDeinit_Skipped ==
    /\ pc = "L124"
    /\ ~NeedsProvisioning(provisioned, reconfigure)
    /\ pc' = "L148"
    /\ log' = log
    /\ UNCHANGED progVars
    /\ UNCHANGED nameVars

\* line 145: wifi_prov_mgr_deinit() on the else branch
SetupDeinit ==
    /\ pc = "L124"
    /\ ~NeedsProvisioning(provisioned, reconfigure)
    /\ pc' = "L148"
    /\ mgr_inited' = FALSE
    /\ log' = Append(log, Call(SETUP, "wifi_prov_mgr_deinit"))
    /\ UNCHANGED <<reconfigure, provisioned, wifi_config, startup_wifi_config,
                   current_cfg, provisioning_timer, timers, cb_pending, prov,
                   attempt, nAttempts, events>>
    /\ UNCHANGED nameVars

\* line 148: esp_wifi_start()
SetupWifiStart ==
    /\ pc = "L148"
    /\ pc' = "L149"
    /\ log' = Append(log, Call(SETUP, "esp_wifi_start"))
    /\ UNCHANGED progVars
    /\ UNCHANGED nameVars

\* line 149: wifi_reconnect_resume()
SetupResume ==
    /\ pc = "L149"
    /\ pc' = "done"
    /\ log' = Append(log, Call(SETUP, "wifi_reconnect_resume"))
    /\ UNCHANGED progVars
    /\ UNCHANGED nameVars

setup_wifi ==
    \/ SetupDeviceName
    \/ SetupReconnectStart
    \/ SetupSnapshot
    \/ SetupProvInit
    \/ SetupIsProvisioned
    \/ SetupStartProvisioning
    \/ SetupTimerCreate
    \/ SetupTimerStart
    \/ SetupDeinit
    \/ SetupWifiStart
    \/ SetupResume


\* ------------------------------------------- transport and timer service
\* A peer sends credentials: the manager applies them to the STA config and
\* posts WIFI_PROV_CRED_RECV (lines 39-43 receive it).
PeerSendsCredentials(c) ==
    /\ Running
    /\ prov = "running"
    /\ attempt \in {"none", "failed"}
    /\ nAttempts < MaxAttempts
    /\ nAttempts' = nAttempts + 1
    /\ attempt' = "pending"
    /\ wifi_config' = c
    /\ events' = Append(events, "WIFI_PROV_CRED_RECV")
    /\ UNCHANGED <<pc, reconfigure, provisioned, startup_wifi_config,
                   current_cfg, provisioning_timer, timers, cb_pending,
                   mgr_inited, prov, log>>
    /\ UNCHANGED nameVars

\* The station could not connect with them: WIFI_PROV_CRED_FAIL (lines 44-49).
PeerCredentialsFail ==
    /\ Running
    /\ prov = "running"
    /\ attempt = "pending"
    /\ attempt' = "failed"
    /\ events' = Append(events, "WIFI_PROV_CRED_FAIL")
    /\ UNCHANGED <<pc, reconfigure, provisioned, wifi_config,
                   startup_wifi_config, current_cfg, provisioning_timer,
                   timers, cb_pending, mgr_inited, prov, nAttempts, log>>
    /\ UNCHANGED nameVars

\* The station connected: WIFI_PROV_CRED_SUCCESS (lines 50-52).
PeerCredentialsAccepted ==
    /\ Running
    /\ prov = "running"
    /\ attempt = "pending"
    /\ attempt' = "accepted"
    /\ events' = Append(events, "WIFI_PROV_CRED_SUCCESS")
    /\ UNCHANGED <<pc, reconfigure, provisioned, wifi_config,
                   startup_wifi_config, current_cfg, provisioning_timer,
                   timers, cb_pending, mgr_inited, prov, nAttempts, log>>
    /\ UNCHANGED nameVars

\* The transport has stopped, after a stop request (line 28) or by itself
\* after success, and posts WIFI_PROV_END, the last event of the session.
TransportEnds ==
    /\ Running
    /\ \/ prov = "stopping"
       \/ prov = "running" /\ attempt = "accepted"
    /\ prov' = "stopped"
    /\ events' = Append(events, "WIFI_PROV_END")
    /\ UNCHANGED <<pc, reconfigure, provisioned, wifi_config,
                   startup_wifi_config, current_cfg, provisioning_timer,
                   timers, cb_pending, mgr_inited, attempt, nAttempts, log>>
    /\ UNCHANGED nameVars

\* The one-shot timer armed at line 140 expires: it is disarmed and its
\* callback is dispatched in the timer context.
TimerExpires(h) ==
    /\ Running
    /\ h \in DOMAIN timers
    /\ timers[h] = "armed"
    /\ timers' = [timers EXCEPT ![h] = "created"]
    /\ cb_pending' = cb_pending \cup {h}
    /\ UNCHANGED <<pc, reconfigure, provisioned, wifi_config,
                   startup_wifi_config, current_cfg, provisioning_timer,
                   mgr_inited, prov, attempt, nAttempts, events, log>>
    /\ UNCHANGED nameVars

\* ---------------------------------------------- provisioning_timer_handler
\* line 28: wifi_prov_mgr_stop_provisioning() takes effect on a running
\* session of an initialised manager.
StopProvisioning == IF mgr_inited /\ prov = "running" THEN "stopping" ELSE prov

\* Variant of the callback that only logs the timeout.
provisioning_timer_handler_NoStop(h) ==
    /\ Running
    /\ h \in cb_pending
    /\ cb_pending' = cb_pending \ {h}
    /\ log' = Append(log, Call(TIMER, "provisioning timeout"))
    /\ UNCHANGED <<pc, reconfigure, provisioned, wifi_config,
                   startup_wifi_config, current_cfg, provisioning_timer,
                   timers, mgr_inited, prov, attempt, nAttempts, events>>
    /\ UNCHANGED nameVars

\* Variant of the callback that tears the session down itself.
provisioning_timer_handler_TearsDown(h) ==
    /\ Running
    /\ h \in cb_pending
    /\ cb_pending' = cb_pending \ {h}
    /\ prov' = StopProvisioning
    /\ mgr_inited' = FALSE
    /\ log' = log \o <<Call(TIMER, "wifi_prov_mgr_stop_provisioning"),
                        Call(TIMER, "wifi_prov_mgr_deinit")>>
    /\ UNCHANGED <<pc, reconfigure, provisioned, wifi_config,
                   startup_wifi_config, current_cfg, provisioning_timer,
                   timers, attempt, nAttempts, events>>
    /\ UNCHANGED nameVars

\* lines 25-30
provisioning_timer_handler(h) ==
    /\ Running
    /\ h \in cb_pending
    /\ cb_pending' = cb_pending \ {h}
    /\ prov' = StopProvisioning
    /\ log' = Append(log, Call(TIMER, "wifi_prov_mgr_stop_provisioning"))
    /\ UNCHANGED <<pc, reconfigure, provisioned, wifi_config,
                   startup_wifi_config, current_cfg, provisioning_timer,
                   timers, mgr_inited, attempt, nAttempts, events>>
    /\ UNCHANGED nameVars


\* ------------------------------------------------ provisioning_timer_delete
\* Variant of lines 15-23 that leaves the timer alone.
provisioning_timer_delete_Noop(tm, handle) ==
    [timers |-> tm, handle |-> handle, calls |-> <<>>]

\* lines 15-23: the timer objects, the handle and the calls made
provisioning_timer_delete(tm, handle) ==
    IF handle # NULL
      THEN [timers |-> [tm EXCEPT ![handle] = "deleted"],
            handle |-> NULL,
            calls  |-> <<Call(HANDLER, "esp_timer_stop"),
                         Call(HANDLER, "esp_timer_delete")>>]
      ELSE [timers |-> tm, handle |-> handle, calls |-> <<>>]

\* ------------------------------------------------- wifi_prov_event_handler
\* Variant of lines 64-68 that never writes the snapshot back.
Reconcile_KeepsEmpty(cur, snap) == cur

\* Variant of lines 64-68 that writes the snapshot back whenever there is one.
Reconcile_SnapshotWins(cur, snap) == IF snap.ssid # "" THEN snap ELSE cur

\* lines 64-68: the STA config after the WIFI_PROV_END case, from the config
\* read back (cur) and the startup snapshot (snap)
Reconcile(cur, snap) == IF cur.ssid = "" THEN snap ELSE cur

\* lines 64-73: the calls and the report of the same branches
ReconcileCalls(cur, snap) ==
    IF cur.ssid = ""
      THEN <<Call(HANDLER, "esp_wifi_set_config")>>
      ELSE IF snap.ssid = ""
             THEN <<Call(HANDLER, "no wifi credentials found")>>
             ELSE <<>>

\* The handler is entered with the event at the head of the queue.
Dispatch(id) ==
    /\ Running
    /\ events # <<>>
    /\ Head(events) = id
    /\ events' = Tail(events)

\* lines 36-38
HandleProvStart ==
    /\ Dispatch("WIFI_PROV_START")
    /\ log' = Append(log, Call(LOOP, "WIFI_PROV_START"))
    /\ UNCHANGED <<pc, reconfigure, provisioned, wifi_config,
                   startup_wifi_config, current_cfg, provisioning_timer,
                   timers, cb_pending, mgr_inited, prov, attempt, nAttempts>>
    /\ UNCHANGED nameVars

\* lines 39-43
HandleCredRecv ==
    /\ Dispatch("WIFI_PROV_CRED_RECV")
    /\ log' = Append(log, Call(LOOP, "WIFI_PROV_CRED_RECV"))
    /\ UNCHANGED <<pc, reconfigure, provisioned, wifi_config,
                   startup_wifi_config, current_cfg, provisioning_timer,
                   timers, cb_pending, mgr_inited, prov, attempt, nAttempts>>
    /\ UNCHANGED nameVars

\* Variant of lines 44-49 that ends the session on the first failure.
HandleCredFail_StopsProvisioning ==
    /\ Dispatch("WIFI_PROV_CRED_FAIL")
    /\ prov' = (IF mgr_inited /\ prov = "running" THEN "stopping" ELSE prov)
    /\ log' = log \o <<Call(LOOP, "WIFI_PROV_CRED_FAIL"),
                        Call(HANDLER, "wifi_prov_mgr_stop_provisioning")>>
    /\ UNCHANGED <<pc, reconfigure, provisioned, wifi_config,
                   startup_wifi_config, current_cfg, provisioning_timer,
                   timers, cb_pending, mgr_inited, attempt, nAttempts>>
    /\ UNCHANGED nameVars

\* lines 44-49
HandleCredFail ==
    /\ Dispatch("WIFI_PROV_CRED_FAIL")
    /\ log' = Append(log, Call(LOOP, "WIFI_PROV_CRED_FAIL"))
    /\ UNCHANGED <<pc, reconfigure, provisioned, wifi_config,
                   startup_wifi_config, current_cfg, provisioning_timer,
                   timers, cb_pending, mgr_inited, prov, attempt, nAttempts>>
    /\ UNCHANGED nameVars

\* lines 50-52
HandleCredSuccess ==
    /\ Dispatch("WIFI_PROV_CRED_SUCCESS")
    /\ log' = Append(log, Call(LOOP, "WIFI_PROV_CRED_SUCCESS"))
    /\ UNCHANGED <<pc, reconfigure, provisioned, wifi_config,
                   startup_wifi_config, current_cfg, provisioning_timer,
                   timers, cb_pending, mgr_inited, prov, attempt, nAttempts>>
    /\ UNCHANGED nameVars

\* Variant of lines 53-77 that signals resume before it reconciles.
HandleProvEnd_ResumesFirst ==
    /\ Dispatch("WIFI_PROV_END")
    /\ LET del == provisioning_timer_delete(timers, provisioning_timer)
       IN  /\ timers' = del.timers
           /\ provisioning_timer' = del.handle
           /\ mgr_inited' = FALSE
           /\ current_cfg' = wifi_config
           /\ wifi_config' = Reconcile(wifi_config, startup_wifi_config)
           /\ log' = log \o <<Call(LOOP, "WIFI_PROV_END")>> \o del.calls
                         \o <<Call(HANDLER, "wifi_prov_mgr_deinit"),
                              Call(HANDLER, "wifi_reconnect_resume"),
                              Call(HANDLER, "esp_wifi_set_storage"),
                              Call(HANDLER, "esp_wifi_get_config")>>
                         \o ReconcileCalls(wifi_config, startup_wifi_config)
    /\ UNCHANGED <<pc, reconfigure, provisioned, startup_wifi_config,
                   cb_pending, prov, attempt, nAttempts>>
    /\ UNCHANGED nameVars

\* lines 53-77
HandleProvEnd ==
    /\ Dispatch("WIFI_PROV_END")
    /\ LET del == provisioning_timer_delete(timers, provisioning_timer)
       IN  /\ timers' = del.timers
           /\ provisioning_timer' = del.handle
           /\ mgr_inited' = FALSE
           /\ current_cfg' = wifi_config
           /\ wifi_config' = Reconcile(wifi_config, startup_wifi_config)
           /\ log' = log \o <<Call(LOOP, "WIFI_PROV_END")>> \o del.calls
                         \o <<Call(HANDLER, "wifi_prov_mgr_deinit"),
                              Call(HANDLER, "esp_wifi_set_storage"),
                              Call(HANDLER, "esp_wifi_get_config")>>
                         \o ReconcileCalls(wifi_config, startup_wifi_config)
                         \o <<Call(HANDLER, "wifi_reconnect_resume")>>
    /\ UNCHANGED <<pc, reconfigure, provisioned, startup_wifi_config,
                   cb_pending, prov, attempt, nAttempts>>
    /\ UNCHANGED nameVars

wifi_prov_event_handler ==
    \/ HandleProvStart
    \/ HandleCredRecv
    \/ HandleCredFail
    \/ HandleCredSuccess
    \/ HandleProvEnd

\* ------------------------------------------------------------ specification
Next ==
    \/ setup_wifi
    \/ wifi_prov_event_handler
    \/ \E c \in CandidateCfgs : PeerSendsCredentials(c)
    \/ PeerCredentialsFail
    \/ PeerCredentialsAccepted
    \/ TransportEnds
    \/ \E h \in DOMAIN timers : TimerExpires(h)
    \/ \E h \in cb_pending : provisioning_timer_handler(h)

Spec == Init /\ [][Next]_vars

TypeOK ==
    /\ pc \in {"L94", "L106", "L110", "L118", "L122", "L124", "L139", "L140",
               "L148", "L149", "done", "aborted"}
    /\ prov \in {"off", "running", "stopping", "stopped"}
    /\ attempt \in {"none", "pending", "failed", "accepted"}
    /\ nAttempts \in 0..MaxAttempts
    /\ provisioning_timer \in {NULL} \cup DOMAIN timers
    /\ cb_pending \subseteq DOMAIN timers


\* ------------------------------------------------------ observed behaviour
PROV_START == Call(SETUP, "wifi_prov_mgr_start_provisioning")
RESUME_SETUP == Call(SETUP, "wifi_reconnect_resume")
RESUME_HANDLER == Call(HANDLER, "wifi_reconnect_resume")
DEINIT_HANDLER == Call(HANDLER, "wifi_prov_mgr_deinit")
STOP_TIMER == Call(TIMER, "wifi_prov_mgr_stop_provisioning")
NO_CREDENTIALS == Call(HANDLER, "no wifi credentials found")

Logged(c) == \E i \in DOMAIN log : log[i] = c
Count(c) == Cardinality({i \in DOMAIN log : log[i] = c})

\* setup_wifi took the provisioning branch
ProvisioningStarted == Logged(PROV_START)
\* the WIFI_PROV_END case has run
SessionEnded == Logged(Call(LOOP, "WIFI_PROV_END"))

ArmedTimers == {h \in DOMAIN timers : timers[h] = "armed"}
AllocatedTimers == {h \in DOMAIN timers : timers[h] # "deleted"}

\* this step is the handler taking event id from the queue
HandlerStep(id) ==
    /\ events # <<>>
    /\ Head(events) = id
    /\ events' = Tail(events)

\* this step is the timer callback running
TimerCallbackStep == cb_pending' # cb_pending /\ cb_pending' \subseteq cb_pending

\* C1: after WIFI_PROV_END has been processed no timeout timer is armed or
\* allocated, in every interleaving of the handler with setup_wifi.
C1_NoTimerAfterSessionEnded ==
    SessionEnded => (provisioning_timer = NULL /\ AllocatedTimers = {})

\* C2: when the config read back at WIFI_PROV_END is empty and the startup
\* snapshot is not, the stored config after reconciliation is the snapshot.
C2_SnapshotRestored ==
    (SessionEnded /\ current_cfg.ssid = "" /\ startup_wifi_config.ssid # "")
        => wifi_config = startup_wifi_config

C2_Witness ==
    /\ SessionEnded
    /\ current_cfg = EmptyCfg
    /\ startup_wifi_config = NetA
    /\ wifi_config = NetA

\* C3: when the config read back at WIFI_PROV_END is not empty, reconciliation
\* leaves it as it is whatever the snapshot holds, and reconciling once more
\* gives the same config.
C3_ProvisionedConfigKept ==
    (SessionEnded /\ current_cfg.ssid # "")
        => /\ wifi_config = current_cfg
           /\ Reconcile(wifi_config, startup_wifi_config) = wifi_config

C3_Witness ==
    /\ SessionEnded
    /\ current_cfg = NetB
    /\ startup_wifi_config = NetA
    /\ wifi_config = NetB

\* C4: at WIFI_PROV_END "no wifi credentials found" is reported exactly when
\* both the config read back and the startup snapshot are empty.
C4_NoCredentialsIffBothEmpty ==
    SessionEnded =>
        (Logged(NO_CREDENTIALS)
            <=> (current_cfg.ssid = "" /\ startup_wifi_config.ssid = ""))

\* C5: handling WIFI_PROV_CRED_FAIL changes nothing but the event queue: no
\* stop request, no timer disarmed or released, the manager stays
\* initialised, the stored config is untouched and no resume is signalled.
C5_CredFailOnlyObserved ==
    [][HandlerStep("WIFI_PROV_CRED_FAIL") =>
          /\ log' = Append(log, Call(LOOP, "WIFI_PROV_CRED_FAIL"))
          /\ UNCHANGED <<pc, prov, timers, provisioning_timer, cb_pending,
                         mgr_inited, wifi_config, startup_wifi_config,
                         current_cfg>>]_vars

C5_Witness ==
    /\ Count(Call(LOOP, "WIFI_PROV_CRED_FAIL")) = 2
    /\ prov = "running"
    /\ mgr_inited
    /\ ArmedTimers # {}
    /\ ~SessionEnded


\* a session was started and has not been torn down
SessionActive ==
    /\ ProvisioningStarted
    /\ mgr_inited
    /\ ~SessionEnded
    /\ ~Logged(DEINIT_HANDLER)
    /\ ~Logged(RESUME_HANDLER)

\* C6: WIFI_PROV_END is the only event that tears the session down. The
\* handler cases of WIFI_PROV_START, WIFI_PROV_CRED_RECV and
\* WIFI_PROV_CRED_SUCCESS change nothing, the timer callback does nothing
\* except request the transport to stop, and a started session stays active
\* over every step that is not the handling of WIFI_PROV_END.
C6_OnlySessionEndedTearsDown ==
    [][/\ (\E id \in {"WIFI_PROV_START", "WIFI_PROV_CRED_RECV",
                      "WIFI_PROV_CRED_SUCCESS"} : HandlerStep(id))
            => /\ log' = Append(log, Call(LOOP, Head(events)))
               /\ UNCHANGED <<pc, prov, timers, provisioning_timer,
                              cb_pending, mgr_inited, wifi_config,
                              startup_wifi_config, current_cfg>>
       /\ TimerCallbackStep
            => /\ log' = Append(log, STOP_TIMER)
               /\ prov' \in {prov, "stopping"}
               /\ UNCHANGED <<pc, timers, provisioning_timer, mgr_inited,
                              wifi_config, startup_wifi_config, current_cfg,
                              events>>
       /\ (SessionActive /\ ~HandlerStep("WIFI_PROV_END")) => SessionActive'
      ]_vars

C6_Witness ==
    /\ Logged(STOP_TIMER)
    /\ Logged(Call(LOOP, "WIFI_PROV_START"))
    /\ Logged(Call(LOOP, "WIFI_PROV_CRED_SUCCESS"))
    /\ prov = "stopped"
    /\ SessionActive

\* C7: a timer callback that runs after WIFI_PROV_END has been processed has
\* no observable effect: it never requests a stop of a manager that has been
\* deinitialised, and no timer is released twice.
C7_LateTimerCallbackHarmless ==
    /\ \A i, j \in DOMAIN log :
          (log[i] = DEINIT_HANDLER /\ log[j] = STOP_TIMER) => j < i
    /\ Count(Call(HANDLER, "esp_timer_delete")) <= Len(timers)

\* C8: the resume signal is sent exactly once per call of setup_wifi: by
\* setup_wifi when it starts no provisioning, by the WIFI_PROV_END case when
\* it does, never by both and never twice.
C8_ResumeExactlyOnce ==
    /\ Count(RESUME_SETUP) + Count(RESUME_HANDLER) <= 1
    /\ Logged(RESUME_SETUP) => ~ProvisioningStarted
    /\ Logged(RESUME_HANDLER) => ProvisioningStarted
    /\ (pc = "done" /\ ~ProvisioningStarted) => Count(RESUME_SETUP) = 1
    /\ SessionEnded => Count(RESUME_HANDLER) = 1
    /\ (ProvisioningStarted /\ ~SessionEnded) => Count(RESUME_HANDLER) = 0

C8_Witness ==
    /\ pc = "done"
    /\ SessionEnded
    /\ Count(RESUME_HANDLER) = 1
    /\ Count(RESUME_SETUP) = 0

\* C9: setup_wifi starts a provisioning session exactly when no credential
\* record is stored or reconfiguration was requested; otherwise it starts
\* none, deinitialises the manager and requests resume itself.
C9_ProvisioningIffNeeded ==
    /\ pc \in {"L139", "L140", "L148", "L149", "done", "aborted"}
         => (ProvisioningStarted
               <=> (startup_wifi_config.ssid = "" \/ reconfigure))
    /\ (pc = "done" /\ ~ProvisioningStarted)
         => /\ prov = "off"
            /\ events = <<>>
            /\ ~mgr_inited
            /\ Count(Call(SETUP, "wifi_prov_mgr_deinit")) = 1
            /\ Count(RESUME_SETUP) = 1

C9_Witness ==
    /\ pc = "done"
    /\ reconfigure
    /\ startup_wifi_config = NetA
    /\ ProvisioningStarted
    /\ prov = "running"

\* C10: on the provisioning path setup_wifi creates and arms one one-shot
\* timer, never more than one timer is armed, and on the other path no timer
\* is ever created.
C10_ExactlyOneTimerPerSession ==
    /\ Cardinality(ArmedTimers) <= 1
    /\ ~ProvisioningStarted => timers = <<>>
    /\ (ProvisioningStarted /\ pc \in {"done", "aborted"})
         => /\ Len(timers) = 1
            /\ pc = "done"


READ_BACK == Call(HANDLER, "esp_wifi_get_config")
WRITE_BACK == Call(HANDLER, "esp_wifi_set_config")
RECONNECT_START == Call(SETUP, "wifi_reconnect_start")

\* C11: in the WIFI_PROV_END case the read back of the stored config and any
\* write of the snapshot are complete before resume is signalled.
C11_ReconciledBeforeResume ==
    /\ \A i \in DOMAIN log :
          log[i] = RESUME_HANDLER
            => /\ \E j \in 1..(i - 1) : log[j] = READ_BACK
               /\ \A k \in DOMAIN log :
                     log[k] \in {READ_BACK, WRITE_BACK} => k < i
    /\ Logged(RESUME_HANDLER)
          => wifi_config = Reconcile(current_cfg, startup_wifi_config)

C11_Witness ==
    /\ Logged(RESUME_HANDLER)
    /\ Logged(WRITE_BACK)
    /\ wifi_config = NetA

\* C12: wifi_reconnect_start precedes the transport start, the interface
\* start and every resume signal, from setup_wifi or from the handler.
C12_ReconnectStartedFirst ==
    \A i \in DOMAIN log :
        log[i] \in {PROV_START, Call(SETUP, "esp_wifi_start"),
                    RESUME_SETUP, RESUME_HANDLER}
          => \E j \in 1..(i - 1) : log[j] = RECONNECT_START

C12_Witness ==
    /\ Logged(RECONNECT_START)
    /\ Logged(PROV_START)
    /\ Logged(RESUME_HANDLER)
    /\ pc = "done"


\* The armed timer expires, and a dispatched callback runs.
TimerFires == \E h \in DOMAIN timers : TimerExpires(h)
TimerCallbackRuns == \E h \in cb_pending : provisioning_timer_handler(h)

\* Scheduling: the caller of setup_wifi and the event loop keep running, an
\* armed one-shot timer expires unless it is released first, its callback
\* runs, and the transport posts WIFI_PROV_END once it was asked to stop or
\* has accepted credentials. Nothing is assumed about the peer.
FairSpec ==
    /\ Spec
    /\ WF_vars(setup_wifi)
    /\ WF_vars(wifi_prov_event_handler)
    /\ WF_vars(TimerFires)
    /\ WF_vars(TimerCallbackRuns)
    /\ WF_vars(TransportEnds)

\* C13: once a provisioning session has been started it eventually ends:
\* WIFI_PROV_END is processed, the stored config is read back and resume is
\* signalled, whatever the peer does.
C13_SessionEventuallyEnds ==
    ProvisioningStarted
        ~> (SessionEnded /\ Logged(READ_BACK) /\ Logged(RESUME_HANDLER))

C13_Witness ==
    /\ SessionEnded
    /\ Logged(STOP_TIMER)
    /\ Logged(RESUME_HANDLER)
    /\ nAttempts = 0
    /\ current_cfg = EmptyCfg
    /\ startup_wifi_config = EmptyCfg


\* setup_wifi run alone for every project name and hardware identifier
NameInit == InitWith(ProjectNames, Macs)
NameSpec == NameInit /\ [][setup_wifi]_vars

\* the 12 hex digits of the identifier, bytes in stored order
MacHex(m) ==
    Nibbles(m[1]) \o Nibbles(m[2]) \o Nibbles(m[3])
        \o Nibbles(m[4]) \o Nibbles(m[5]) \o Nibbles(m[6])

Contains(s, sub) ==
    \E k \in 0..(Len(s) - Len(sub)) : SubSeq(s, k + 1, k + Len(sub)) = sub

\* C14: for every project name and 6-byte identifier the device name has at
\* most 32 characters and contains all 12 lowercase hex digits of the
\* identifier (in stored byte order, or as the digits of the integer read).
C14_DeviceNameHoldsFullIdentifier ==
    pc # "L94"
      => /\ Len(device_name) <= 32
         /\ \/ Contains(device_name, MacHex(mac))
            \/ Contains(device_name, ValueDigits(mac))

\* C15: the service name is "PROV_" followed by the whole device name, and
\* has at most 37 characters.
C15_ServiceNameIsPrefixedDeviceName ==
    ProvisioningStarted
      => /\ service_name = <<"P", "R", "O", "V", "_">> \o device_name
         /\ Len(service_name) <= 37

C15_Witness ==
    /\ ProvisioningStarted
    /\ Len(device_name) = 32
    /\ Len(service_name) = 37


TIMER_STOP == Call(HANDLER, "esp_timer_stop")
TIMER_DELETE == Call(HANDLER, "esp_timer_delete")
SNAPSHOT == Call(SETUP, "esp_wifi_get_config")
MGR_INIT == Call(SETUP, "wifi_prov_mgr_init")
DEINIT_SETUP == Call(SETUP, "wifi_prov_mgr_deinit")

\* C16: in the WIFI_PROV_END case the timer has been released and the manager
\* deinitialised before the stored config is read back: the read back comes
\* after both in the handler, and the handler leaves no timer armed and the
\* manager deinitialised.
C16_TornDownBeforeReadBack ==
    /\ [](\A i \in DOMAIN log :
            log[i] = READ_BACK
              => /\ \E j \in 1..(i - 1) : log[j] = DEINIT_HANDLER
                 /\ \A k \in DOMAIN log :
                       log[k] \in {TIMER_STOP, TIMER_DELETE} => k < i)
    /\ [][HandlerStep("WIFI_PROV_END")
            => /\ ArmedTimers' = {}
               /\ provisioning_timer' = NULL
               /\ ~mgr_inited']_vars

C16_Witness ==
    /\ Logged(READ_BACK)
    /\ Logged(TIMER_DELETE)
    /\ ~mgr_inited
    /\ ArmedTimers = {}
    /\ AllocatedTimers = {}

\* C17: reconciliation writes the stored config only when the config read
\* back is empty and the snapshot is not; with both empty nothing is written.
C17_WritesOnlyToRestoreSnapshot ==
    SessionEnded =>
        (Logged(WRITE_BACK)
            <=> (current_cfg.ssid = "" /\ startup_wifi_config.ssid # ""))

\* C18: the snapshot is taken from the stored config before the transport is
\* started and nothing changes it afterwards.
C18_SnapshotImmutable ==
    /\ [](\A i \in DOMAIN log :
            log[i] = PROV_START => \E j \in 1..(i - 1) : log[j] = SNAPSHOT)
    /\ [][startup_wifi_config' # startup_wifi_config
            => /\ pc = "L110"
               /\ ~ProvisioningStarted
               /\ startup_wifi_config' = wifi_config]_vars

C18_Witness ==
    /\ SessionEnded
    /\ startup_wifi_config = NetA
    /\ nAttempts = MaxAttempts
    /\ Logged(STOP_TIMER)
    /\ current_cfg = NetB

\* C19: after the WIFI_PROV_END case the stored config is empty only if both
\* the config read back and the snapshot were empty: credentials the device
\* had before provisioning are not lost.
C19_CredentialsNeverLost ==
    /\ (SessionEnded /\ wifi_config.ssid = "")
          => (current_cfg.ssid = "" /\ startup_wifi_config.ssid = "")
    /\ (SessionEnded /\ startup_wifi_config.ssid # "") => wifi_config.ssid # ""

C19_Witness ==
    /\ SessionEnded
    /\ nAttempts = 0
    /\ Logged(STOP_TIMER)
    /\ startup_wifi_config = NetA
    /\ current_cfg = EmptyCfg
    /\ wifi_config = NetA

\* C20: the provisioning manager is deinitialised once and only after it was
\* initialised, by setup_wifi when it starts no provisioning and by the
\* WIFI_PROV_END case when it does; without provisioning the stored config is
\* left as it was.
C20_DeinitOncePerPath ==
    /\ Count(DEINIT_SETUP) + Count(DEINIT_HANDLER) <= 1
    /\ \A i \in DOMAIN log :
          log[i] \in {DEINIT_SETUP, DEINIT_HANDLER}
            => \E j \in 1..(i - 1) : log[j] = MGR_INIT
    /\ Logged(DEINIT_SETUP) => ~ProvisioningStarted
    /\ Logged(DEINIT_HANDLER) => ProvisioningStarted
    /\ SessionEnded => Count(DEINIT_HANDLER) = 1
    /\ (pc = "done" /\ ~ProvisioningStarted)
          => /\ Count(DEINIT_SETUP) = 1
             /\ ~mgr_inited
             /\ ~Logged(WRITE_BACK)
             /\ wifi_config = startup_wifi_config

C20_Witness ==
    /\ pc = "done"
    /\ ~ProvisioningStarted
    /\ Count(DEINIT_SETUP) = 1
    /\ ~mgr_inited
    /\ wifi_config = NetA

====
